---- MODULE Spec2Model ----
(***************************************************************************)
(* Model of the Deno compatibility layer for Node.js / Bun                 *)
(* (src/src/deno-compat-node.ts): the Command class (spawn, output), the   *)
(* stdin writer wrapper, the exit-status promise and the stdout            *)
(* accumulator, running against the host's child_process primitives.       *)
(*                                                                         *)
(* A nullable JavaScript value is a sequence: <<>> is null/undefined and   *)
(* <<v>> is the value v.  A promise is a record [state, value] whose state *)
(* is "none" (not created), "pending", "resolved" or "rejected".           *)
(***************************************************************************)
EXTENDS Integers, Sequences, FiniteSets, TLC

\* ---- bounds of the model ----
MaxChunks == 2      \* writes the child makes to its standard output
MaxWrites == 2      \* write() calls made on the stdin writer
MaxExitCode == 1    \* exit codes reported by the host are 0..MaxExitCode
MaxErrChunks == 1   \* writes the child makes to its standard error
MaxParams == 2      \* parameters of one foreign symbol

\* two distinct byte values tell apart every order of the chunks
Bytes == {1, 2}
Modes == {"piped", "null", "inherit", "unset"}
Signals == {"SIGTERM"}
EnvNames == {"PATH", "HOME", "EXTRA"}
EnvValues == {"a", "b"}

Null == <<>>
Some(v) == <<v>>

\* ---- pure translations of Command.spawn ----

\* `x || "inherit"`: an unset (undefined) option falls back to "inherit",
\* any other string is handed on as it is.
OrInherit(mode) == IF mode = "unset" THEN "inherit" ELSE mode

\* stdio[0]: this.options.stdin === "piped" ? "pipe" : this.options.stdin || "inherit"
StdinSlot(mode) == IF mode = "piped" THEN "pipe" ELSE OrInherit(mode)

\* stdio[1]
StdoutSlot(mode) ==
  IF mode = "piped" THEN "pipe"
  ELSE IF mode = "null" THEN "ignore"
  ELSE OrInherit(mode)

\* stdio[2]
StderrSlot(mode) ==
  IF mode = "piped" THEN "pipe"
  ELSE IF mode = "null" THEN "ignore"
  ELSE OrInherit(mode)

StdioOf(opts) == <<StdinSlot(opts.stdin), StdoutSlot(opts.stdout), StderrSlot(opts.stderr)>>

\* An environment is a function from a set of names to values.
\* { ...process.env, ...this.options.env }: the later spread wins.
MergeEnvReplace(inherited, overrides) == overrides

MergeEnv(inherited, overrides) ==
  [n \in (DOMAIN inherited) \cup (DOMAIN overrides) |->
     IF n \in DOMAIN overrides THEN overrides[n] ELSE inherited[n]]

\* if (this.options.env) spawnOptions.env = {...}; otherwise no env key at all
SpawnEnv(inherited, optEnv) ==
  IF optEnv = Null THEN Null ELSE Some(MergeEnv(inherited, optEnv[1]))

\* The exit listener: resolve({success: code === 0, code: code || 0, signal: signal || null})
ExitStatusLoose(code, signal) ==
  [success |-> (code = Null \/ code = Some(0)),
   code    |-> IF code = Null THEN 0 ELSE code[1],
   signal  |-> signal]

ExitStatus(code, signal) ==
  [success |-> (code = Some(0)),
   code    |-> IF code = Null THEN 0 ELSE code[1],
   signal  |-> signal]

\* Buffer.concat(chunks)
RECURSIVE Concat(_)
Concat(chunks) == IF chunks = <<>> THEN <<>> ELSE Head(chunks) \o Concat(Tail(chunks))

\* chunks.push(chunk)
PushChunkFront(chunks, chunk) == <<chunk>> \o chunks

PushChunk(chunks, chunk) == Append(chunks, chunk)

\* resolve(v) of a promise settles it only while it is pending
Resolve(p, v) == IF p.state = "pending" THEN [state |-> "resolved", value |-> Some(v)] ELSE p
Reject(p) == IF p.state = "pending" THEN [state |-> "rejected", value |-> Null] ELSE p
NoPromise == [state |-> "none", value |-> Null]
Pending == [state |-> "pending", value |-> Null]

\* the values a host stdio slot may take; any other string makes the host's
\* spawn throw synchronously
HostStdioValues == {"pipe", "ignore", "inherit"}

\* The host events the adapter subscribes to.  The only listener any handle
\* gets is child.on("exit", ...), whose body resolves the status promise.
ListenersWithStreamEnd == {"child.exit", "stdout.end"}

Listeners == {"child.exit"}

\* the futures Command.output() awaits: Promise.all([process.status, process.output()])
AwaitedStatusOnly == {"status"}

AwaitedByOutput == {"status", "stdout"}

VARIABLES
  childErr,     \* every byte the child wrote to its standard error, in order
  errBuf,       \* bytes in the host's stderr pipe (child.stderr) nobody has read
  exitListener, \* TRUE once child.on("exit", ...) has been executed
  awaiting,     \* "no", or when the caller began to await process.status:
                \* "before_exit" or "after_exit"
  observed,     \* Null, or Some(v) once the caller's await returned v
  navigator,    \* Null when there is no navigator, else Some(userAgent)
  denoGlobal,   \* globalThis.Deno: "unbound", "native", "DenoCompat", "BunDenoCompat"
  loaded,       \* the modules of the package evaluated so far (each at most once)
  assigns,      \* the assignments made to globalThis.Deno: [value, before]
  modImport,    \* Null, or Some(adapter) for the adapter mod.ts imported
  ffiCall,      \* the last call made on BunDenoCompat: [fn, arg]
  ffiResult,    \* its outcome: [ok, value], value a one-element sequence or an error
  hostOpens     \* the binding tables that call handed to the host's dlopen

stderrVars == <<childErr, errBuf>>
awaitVars == <<awaiting, observed>>
installVars == <<navigator, denoGlobal, loaded, assigns, modImport>>
ffiVars == <<ffiCall, ffiResult, hostOpens>>

\* { success: status.success, code: status.code, signal: status.signal, stdout, stderr: new Uint8Array(0) }
OutputResultWithStderr(st, out) ==
  [success |-> st.success, code |-> st.code, signal |-> st.signal,
   stdout |-> out, stderr |-> childErr]

OutputResult(st, out) ==
  [success |-> st.success, code |-> st.code, signal |-> st.signal,
   stdout |-> out, stderr |-> <<>>]

VARIABLES
  options,      \* the Command's options: stdin, stdout, stderr modes and env (nullable)
  processEnv,   \* process.env of the running process
  pc,           \* "constructed", "spawned" (spawn() returned) or "threw" (spawn() threw)
  via,          \* "none", "spawn" (caller used spawn()) or "output" (Command.output())
  hostStdio,    \* the stdio array handed to the host; <<>> before spawn
  hostEnv,      \* the env handed to the host: Null when no env key is passed
  launch,       \* host launch: "none", "ok", "asyncError", "errorEmitted", "threw"
  exitEvent,    \* Null, or Some(<<code, signal>>) once the host emitted 'exit'
  status,       \* the status promise of the SpawnedProcess
  stdinWrapper, \* TRUE iff the SpawnedProcess's stdin field is a wrapper (not null)
  childOut,     \* every byte the child wrote to its standard output, in order
  hostBuf,      \* bytes in the host's stdout pipe not yet handed to a reader
  stdoutClosed, \* the child closed its standard output
  accState,     \* SpawnedProcess.output(): "idle", "running" or "done"
  chunks,       \* its local array of chunks
  accResult,    \* the bytes it returned
  cmdOut,       \* the promise returned by Command.output()
  writes,       \* the write() calls made on the stdin writer, in submission order
  hostQ,        \* indices of the writes the host has accepted and not yet flushed
  settled,      \* indices of writes in the order their promises settled
  closeState,   \* the promise returned by close()
  stdinState,   \* host stdin stream: "open", "ending", "finished", "errored"
  crashed       \* an 'error' event found no listener and was thrown as uncaught

vars == <<childErr, errBuf, exitListener, awaiting, observed,
          navigator, denoGlobal, loaded, assigns, modImport,
          ffiCall, ffiResult, hostOpens,
          options, processEnv, pc, via, hostStdio, hostEnv, launch, exitEvent,
          status, stdinWrapper, childOut, hostBuf, stdoutClosed, accState,
          chunks, accResult, cmdOut, writes, hostQ, settled, closeState,
          stdinState, crashed>>

optVars == <<options, processEnv>>
spawnVars == <<pc, via, hostStdio, hostEnv, launch, stdinWrapper, exitListener>>
\* what the actions of the Command's own life cycle never touch
sideVars == <<stderrVars, awaitVars, installVars, ffiVars>>
stdoutVars == <<childOut, hostBuf, stdoutClosed>>
accVars == <<accState, chunks, accResult>>
stdinVars == <<writes, hostQ, settled, closeState, stdinState>>

Envs == UNION {[D -> EnvValues] : D \in SUBSET EnvNames}
\* process.env holds PATH and HOME; overrides name nothing, or PATH and EXTRA
InheritedEnvs == {e \in Envs : DOMAIN e = {"PATH", "HOME"} /\ \A n \in DOMAIN e : e[n] = "a"}
OverrideEnvs ==
  {e \in Envs : /\ DOMAIN e \in {{}, {"PATH", "EXTRA"}}
                /\ \A n \in DOMAIN e : e[n] = "b"}

OptionSet ==
  [stdin : Modes, stdout : Modes, stderr : Modes,
   env : {Null} \cup {Some(e) : e \in OverrideEnvs}]

\* new Command(cmd, options): options are stored and never changed
Init ==
  /\ options \in OptionSet
  /\ processEnv \in InheritedEnvs
  /\ pc = "constructed"
  /\ via = "none"
  /\ hostStdio = <<>>
  /\ hostEnv = Null
  /\ launch = "none"
  /\ exitEvent = Null
  /\ status = NoPromise
  /\ stdinWrapper = FALSE
  /\ childOut = <<>>
  /\ hostBuf = <<>>
  /\ stdoutClosed = FALSE
  /\ accState = "idle"
  /\ chunks = <<>>
  /\ accResult = <<>>
  /\ cmdOut = NoPromise
  /\ writes = <<>>
  /\ hostQ = <<>>
  /\ settled = <<>>
  /\ closeState = NoPromise
  /\ stdinState = "open"
  /\ crashed = FALSE
  /\ childErr = <<>>
  /\ errBuf = <<>>
  /\ exitListener = FALSE
  /\ awaiting = "no"
  /\ observed = Null
  /\ navigator = Null
  /\ denoGlobal = "DenoCompat"
  /\ loaded = {"node"}
  /\ assigns = <<[value |-> "DenoCompat", before |-> "unbound"]>>
  /\ modImport = Null
  /\ ffiCall = [fn |-> "none", arg |-> <<>>]
  /\ ffiResult = [ok |-> TRUE, value |-> <<>>]
  /\ hostOpens = <<>>

\* the host gives the child a stdin handle exactly when slot 0 is a pipe
ChildHasStdin(stdio) == stdio[1] = "pipe"

\* const stdinWrapper = child.stdin ? { getWriter() {...} } : null
StdinWrapperAlways(childStdin) == TRUE

StdinWrapperOf(childStdin) == childStdin

\* status: new Promise((resolve) => { child.on("exit", ...) }): the executor
\* runs inside spawn(), so the listener is registered before spawn() returns
ListenerNotAtSpawn == FALSE

ListenerAtSpawn == TRUE

\* the host delivers event ev: every listener registered for it runs
Dispatch(ev, st, code, signal) ==
  IF ev \in Listeners /\ exitListener THEN Resolve(st, ExitStatus(code, signal)) ELSE st

\* nodeSpawn(cmd, args, spawnOptions): throws synchronously on an invalid
\* stdio value or a launch error it reports at once; otherwise returns the
\* child, which either runs ("ok") or emits 'error' later ("asyncError")
HostSpawnOutcomes(stdio) ==
  IF \E i \in 1..3 : stdio[i] \notin HostStdioValues THEN {"threw"}
  ELSE {"ok", "asyncError", "threw"}

\* the body of spawn(); caller is "spawn" or "output"
SpawnBody(caller, outcome) ==
  /\ pc = "constructed"
  /\ hostStdio' = StdioOf(options)
  /\ hostEnv' = SpawnEnv(processEnv, options.env)
  /\ outcome \in HostSpawnOutcomes(StdioOf(options))
  /\ launch' = outcome
  /\ via' = caller
  /\ IF outcome = "threw"
       THEN /\ pc' = "threw"
            /\ UNCHANGED <<status, stdinWrapper, exitListener>>
       ELSE /\ pc' = "spawned"
            /\ stdinWrapper' = StdinWrapperOf(ChildHasStdin(StdioOf(options)))
            /\ status' = Pending
            /\ exitListener' = ListenerAtSpawn
  /\ UNCHANGED <<optVars, sideVars, exitEvent, stdoutVars, stdinVars, crashed>>

\* Command.spawn() called by the user
CommandSpawn ==
  \E outcome \in {"ok", "asyncError", "threw"} :
    /\ SpawnBody("spawn", outcome)
    /\ UNCHANGED <<accVars, cmdOut>>

\* the first synchronous part of SpawnedProcess.output(): without a stdout
\* handle the loop is skipped and the empty buffer is returned
StartAccumulator(stdio) ==
  /\ chunks' = <<>>
  /\ IF stdio[2] = "pipe"
       THEN accState' = "running" /\ accResult' = <<>>
       ELSE accState' = "done" /\ accResult' = Concat(<<>>)

\* Command.output(): spawn, then Promise.all([process.status, process.output()])
CommandOutput ==
  \E outcome \in {"ok", "asyncError", "threw"} :
    /\ SpawnBody("output", outcome)
    /\ IF outcome = "threw"
         THEN cmdOut' = Reject(Pending) /\ UNCHANGED accVars
         ELSE StartAccumulator(StdioOf(options)) /\ cmdOut' = Pending

\* the process is alive: nothing was thrown as an uncaught exception
Alive == pc = "spawned" /\ ~crashed

\* a child that failed to launch emits 'error' on the next tick, before any
\* other callback runs; no listener is registered for it
HostLaunchError ==
  /\ Alive /\ launch = "asyncError"
  /\ launch' = "errorEmitted"
  /\ status' = Dispatch("child.error", status, Null, Null)
  /\ crashed' = ("child.error" \notin Listeners)
  /\ UNCHANGED <<optVars, sideVars, pc, via, hostStdio, hostEnv, stdinWrapper, exitListener, exitEvent,
                 stdoutVars, accVars, cmdOut, stdinVars>>

Running == Alive /\ launch = "ok"

\* the user calls process.output() on a process obtained from spawn()
ProcessOutput ==
  /\ Running /\ via = "spawn" /\ accState = "idle"
  /\ StartAccumulator(hostStdio)
  /\ UNCHANGED <<optVars, sideVars, spawnVars, exitEvent, status, stdoutVars, cmdOut,
                 stdinVars, crashed>>

\* the child writes one byte to its standard output; it reaches the host's
\* pipe only when the slot is a pipe
ChildWrite ==
  \E b \in Bytes :
    /\ Running /\ exitEvent = Null /\ ~stdoutClosed
    /\ Len(childOut) < MaxChunks
    /\ childOut' = Append(childOut, b)
    /\ hostBuf' = IF hostStdio[2] = "pipe" THEN Append(hostBuf, b) ELSE hostBuf
    /\ UNCHANGED <<optVars, sideVars, spawnVars, exitEvent, status, stdoutClosed, accVars,
                   cmdOut, stdinVars, crashed>>

\* the child closes its standard output (at the latest when it is gone)
ChildCloseStdout ==
  /\ Running /\ ~stdoutClosed
  /\ stdoutClosed' = TRUE
  /\ UNCHANGED <<optVars, sideVars, spawnVars, exitEvent, status, childOut, hostBuf,
                 accVars, cmdOut, stdinVars, crashed>>

\* for await (const chunk of child.stdout) chunks.push(chunk): the host hands
\* over the next n buffered bytes as one chunk
HostDeliver ==
  \E n \in 1..MaxChunks :
    /\ Running /\ accState = "running" /\ n <= Len(hostBuf)
    /\ chunks' = PushChunk(chunks, SubSeq(hostBuf, 1, n))
    /\ hostBuf' = SubSeq(hostBuf, n + 1, Len(hostBuf))
    /\ UNCHANGED <<optVars, sideVars, spawnVars, exitEvent, status, childOut, stdoutClosed,
                   accState, accResult, cmdOut, stdinVars, crashed>>

\* the stdout stream ends: the loop finishes and the chunks are concatenated
HostStdoutEnd ==
  /\ Running /\ accState = "running" /\ stdoutClosed /\ hostBuf = <<>>
  /\ accState' = "done"
  /\ accResult' = Concat(chunks)
  /\ status' = Dispatch("stdout.end", status, Null, Null)
  /\ UNCHANGED <<optVars, sideVars, spawnVars, exitEvent, stdoutVars, chunks, cmdOut,
                 stdinVars, crashed>>

\* what the host may report at exit: a code and no signal, or a signal and no code
ExitReports ==
  {<<Some(c), Null>> : c \in 0..MaxExitCode} \cup {<<Null, Some(s)>> : s \in Signals}

\* the host emits 'exit' (once per child): child.on("exit", (code, signal) => resolve(...))
HostExit ==
  \E r \in ExitReports :
    /\ Running /\ exitEvent = Null
    /\ exitEvent' = Some(r)
    /\ status' = Dispatch("child.exit", status, r[1], r[2])
    /\ UNCHANGED <<optVars, sideVars, spawnVars, stdoutVars, accVars, cmdOut, stdinVars,
                   crashed>>

\* Promise.all settles once every awaited promise has, and output() returns
OutputSettle ==
  /\ Alive /\ via = "output" /\ cmdOut.state = "pending"
  /\ "status" \in AwaitedByOutput => status.state = "resolved"
  /\ "stdout" \in AwaitedByOutput => accState = "done"
  /\ cmdOut' = Resolve(cmdOut, OutputResult(status.value[1], accResult))
  /\ UNCHANGED <<optVars, sideVars, spawnVars, exitEvent, status, stdoutVars, accVars,
                 stdinVars, crashed>>

\* ---- the stdin writer: stdinWrapper.getWriter() ----
\* A write is [state, acked, afterClose, failed]: the state of the promise
\* write() returned, whether the host flushed it, whether it was submitted
\* after close(), and whether it is the write the host reported as failed.
NewWrite(st, late, bad) == [state |-> st, acked |-> FALSE, afterClose |-> late, failed |-> bad]

\* the write callback: (err) => { if (err) reject(err); else resolve(); }
WriteCallback(w, err) == [w EXCEPT !.state = IF err THEN "rejected" ELSE "resolved"]

\* the end callback: () => resolve(); its error argument is not looked at
CloseCallback(p, err) == Resolve(p, "void")

\* write(chunk) on an open stream: child.stdin.write(chunk, cb) queues the chunk
WriterWrite ==
  /\ Running /\ via = "spawn" /\ stdinWrapper
  /\ stdinState = "open"
  /\ Len(writes) < MaxWrites
  /\ writes' = Append(writes, NewWrite("pending", FALSE, FALSE))
  /\ hostQ' = Append(hostQ, Len(writes) + 1)
  /\ UNCHANGED <<optVars, sideVars, spawnVars, exitEvent, status, stdoutVars, accVars,
                 cmdOut, settled, closeState, stdinState, crashed>>

\* write(chunk) after close(): the host calls back with a write-after-end
\* error and emits 'error' on the stream, for which there is no listener
WriterWriteAfterClose ==
  /\ Running /\ via = "spawn" /\ stdinWrapper
  /\ stdinState \in {"ending", "finished"}
  /\ Len(writes) < MaxWrites
  /\ writes' = Append(writes, WriteCallback(NewWrite("pending", TRUE, TRUE), TRUE))
  /\ settled' = Append(settled, Len(writes) + 1)
  /\ status' = Dispatch("stdin.error", status, Null, Null)
  /\ crashed' = ("stdin.error" \notin Listeners)
  /\ UNCHANGED <<optVars, sideVars, spawnVars, exitEvent, stdoutVars, accVars, cmdOut,
                 hostQ, closeState, stdinState>>

\* close(): child.stdin.end(cb); the stream finishes once the queue is flushed
WriterClose ==
  /\ Running /\ via = "spawn" /\ stdinWrapper
  /\ closeState.state = "none"
  /\ closeState' = Pending
  /\ stdinState' = "ending"
  /\ UNCHANGED <<optVars, sideVars, spawnVars, exitEvent, status, stdoutVars, accVars,
                 cmdOut, writes, hostQ, settled, crashed>>

\* the host flushed the oldest queued write and calls its callback without error
HostAckWrite ==
  /\ Running /\ hostQ # <<>>
  /\ LET k == Head(hostQ) IN
       /\ writes' = [writes EXCEPT ![k] = WriteCallback([@ EXCEPT !.acked = TRUE], FALSE)]
       /\ settled' = Append(settled, k)
  /\ hostQ' = Tail(hostQ)
  /\ UNCHANGED <<optVars, sideVars, spawnVars, exitEvent, status, stdoutVars, accVars,
                 cmdOut, closeState, stdinState, crashed>>

\* every write is flushed and end() was called: the stream finishes and the
\* host calls the end callback
HostStdinFinish ==
  /\ Running /\ stdinState = "ending" /\ hostQ = <<>>
  /\ stdinState' = "finished"
  /\ closeState' = CloseCallback(closeState, FALSE)
  /\ status' = Dispatch("stdin.finish", status, Null, Null)
  /\ UNCHANGED <<optVars, sideVars, spawnVars, exitEvent, stdoutVars, accVars, cmdOut,
                 writes, hostQ, settled, crashed>>

\* the pipe is broken (the child closed its stdin or is gone) while a write is
\* queued: the host calls that write's callback with the error, then the
\* callbacks of the writes queued behind it and a pending end callback, all
\* with an error, and emits 'error' on the stream, for which there is no listener
HostStdinError ==
  /\ Running /\ stdinState \in {"open", "ending"} /\ hostQ # <<>>
  /\ writes' = [k \in 1..Len(writes) |->
                  IF k = Head(hostQ)
                    THEN WriteCallback([writes[k] EXCEPT !.failed = TRUE], TRUE)
                  ELSE IF writes[k].state = "pending"
                    THEN WriteCallback(writes[k], TRUE)
                  ELSE writes[k]]
  /\ settled' = settled \o hostQ
  /\ hostQ' = <<>>
  /\ closeState' = IF stdinState = "ending" THEN CloseCallback(closeState, TRUE) ELSE closeState
  /\ stdinState' = "errored"
  /\ status' = Dispatch("stdin.error", status, Null, Null)
  /\ crashed' = ("stdin.error" \notin Listeners)
  /\ UNCHANGED <<optVars, sideVars, spawnVars, exitEvent, stdoutVars, accVars, cmdOut>>

Next ==
  \/ CommandSpawn
  \/ CommandOutput
  \/ HostLaunchError
  \/ ProcessOutput
  \/ ChildWrite
  \/ ChildCloseStdout
  \/ HostDeliver
  \/ HostStdoutEnd
  \/ HostExit
  \/ OutputSettle
  \/ WriterWrite
  \/ WriterWriteAfterClose
  \/ WriterClose
  \/ HostAckWrite
  \/ HostStdinFinish
  \/ HostStdinError

Spec == Init /\ [][Next]_vars

\* ---- observing a process: its stderr and its status ----

\* the child writes one byte to its standard error; it reaches the host's
\* pipe (child.stderr) only when the slot is a pipe
ChildWriteStderr ==
  \E b \in Bytes :
    /\ Running /\ exitEvent = Null
    /\ Len(childErr) < MaxErrChunks
    /\ childErr' = Append(childErr, b)
    /\ errBuf' = IF hostStdio[3] = "pipe" THEN Append(errBuf, b) ELSE errBuf
    /\ UNCHANGED <<optVars, awaitVars, installVars, ffiVars, spawnVars, exitEvent, status, stdoutVars,
                   accVars, cmdOut, stdinVars, crashed>>

\* the caller of spawn() starts to await process.status, before or after the exit
AwaitStatus ==
  /\ Alive /\ via = "spawn" /\ awaiting = "no"
  /\ awaiting' = IF exitEvent = Null THEN "before_exit" ELSE "after_exit"
  /\ UNCHANGED <<optVars, stderrVars, installVars, ffiVars, observed, spawnVars, exitEvent, status,
                 stdoutVars, accVars, cmdOut, stdinVars, crashed>>

\* the await returns once the promise is resolved
StatusContinuation ==
  /\ Alive /\ awaiting # "no" /\ observed = Null
  /\ status.state = "resolved"
  /\ observed' = status.value
  /\ UNCHANGED <<optVars, stderrVars, installVars, ffiVars, awaiting, spawnVars, exitEvent, status,
                 stdoutVars, accVars, cmdOut, stdinVars, crashed>>

\* a Command without stdin pipe and env, observed through stdout, stderr and status
InitObserve == Init /\ options.stdin = "inherit" /\ options.env = Null

NextObserve ==
  \/ CommandSpawn
  \/ CommandOutput
  \/ HostLaunchError
  \/ ProcessOutput
  \/ ChildWrite
  \/ ChildWriteStderr
  \/ ChildCloseStdout
  \/ HostDeliver
  \/ HostStdoutEnd
  \/ HostExit
  \/ OutputSettle
  \/ AwaitStatus
  \/ StatusContinuation

ObserveSpec == InitObserve /\ [][NextObserve]_vars

\* a resolved promise's continuations are always run by the event loop
FairObserveSpec == ObserveSpec /\ WF_vars(StatusContinuation) /\ WF_vars(OutputSettle)

\* ---- loading the modules: runtime detection and global installation ----

\* user agents, as sequences of characters
UserAgents ==
  { <<>>,
    <<"N", "o", "d", "e", "/", "1">>,
    <<"D", "e", "n", "o", "/", "1">>,
    <<"B", "u", "n", "/", "1">>,
    <<"b", "u", "n", "/", "1">>,
    <<"B", "U", "N">>,
    <<"x", "B", "u", "n">>,
    <<"B", "u", "n", "d", "e", "n", "o">>,
    <<"B", "u", "n">>,
    <<"D", "E", "N", "O">>,
    <<"M", "o", "z", "/", "5">> }

\* String.prototype.toLowerCase on one character
LowerChar(c) ==
  CASE c = "B" -> "b" [] c = "U" -> "u" [] c = "N" -> "n"
    [] c = "D" -> "d" [] c = "E" -> "e" [] c = "O" -> "o"
    [] OTHER -> c

ToLowerCase(str) == [i \in 1..Len(str) |-> LowerChar(str[i])]

\* /word/i.test(str): some substring of str equals word, letter case ignored
TestIgnoreCase(word, str) ==
  \E i \in 0..(Len(str) - Len(word)) :
    ToLowerCase(SubSeq(str, i + 1, i + Len(word))) = word

\* str.startsWith(prefix)
StartsWith(str, prefix) ==
  Len(str) >= Len(prefix) /\ SubSeq(str, 1, Len(prefix)) = prefix

\* runtime.ts: typeof navigator !== "undefined" && navigator.userAgent ? ... : "node"
Runtime(nav) ==
  IF nav # Null /\ nav[1] # <<>>
    THEN IF TestIgnoreCase(<<"d", "e", "n", "o">>, ToLowerCase(nav[1])) THEN "deno"
         ELSE IF TestIgnoreCase(<<"b", "u", "n">>, ToLowerCase(nav[1])) THEN "bun"
         ELSE "node"
    ELSE "node"

isDeno(nav) == Runtime(nav) = "deno"
isNode(nav) == Runtime(nav) = "node"
isBun(nav) == Runtime(nav) = "bun"

\* deno-compat-bun.ts: if (navigator.userAgent.startsWith("Bun")) { ... };
\* without a navigator the expression throws and nothing below it runs
BunGuardByDetection(nav) == isBun(nav)

BunGuard(nav) == nav # Null /\ StartsWith(nav[1], <<"B", "u", "n">>)

\* the members of the two classes that matter here
FFIMembers == {"dlopen", "UnsafeCallback", "UnsafePointer", "UnsafePointerView"}
BaseMembers == {"readTextFile", "readFile", "readDir", "stat", "Command"}
Surface(binding) ==
  IF binding = "BunDenoCompat" THEN BaseMembers \cup FFIMembers \cup {"transformFFIType"}
  ELSE IF binding = "DenoCompat" THEN BaseMembers
  ELSE {}

\* The state of the global and of the module cache is a record
\* [global, loaded, assigns]; (globalThis as any).Deno = value:
Assign(g, value) ==
  [g EXCEPT !.global = value,
            !.assigns = Append(@, [value |-> value, before |-> g.global])]

\* evaluating deno-compat-node.ts: if (typeof Deno === "undefined") Deno = DenoCompat
EvalNode(g) ==
  IF "node" \in g.loaded THEN g
  ELSE LET g1 == [g EXCEPT !.loaded = @ \cup {"node"}]
       IN IF g1.global = "unbound" THEN Assign(g1, "DenoCompat") ELSE g1

\* evaluating deno-compat-bun.ts: its import of the node adapter is evaluated
\* first, then the guarded block ends with Deno = BunDenoCompat
EvalBun(g, nav) ==
  IF "bun" \in g.loaded THEN g
  ELSE LET g1 == EvalNode([g EXCEPT !.loaded = @ \cup {"bun"}])
       IN IF BunGuard(nav) THEN Assign(g1, "BunDenoCompat") ELSE g1

\* mod.ts: if (isNode) import node adapter; else if (isBun) import bun adapter
ModChoice(nav) ==
  IF isNode(nav) THEN Some("node") ELSE IF isBun(nav) THEN Some("bun") ELSE Null

EvalMod(g, nav) ==
  LET g1 == [g EXCEPT !.loaded = @ \cup {"mod", "runtime"}]
  IN IF ModChoice(nav) = Some("node") THEN EvalNode(g1)
     ELSE IF ModChoice(nav) = Some("bun") THEN EvalBun(g1, nav)
     ELSE g1

Globals == [global |-> denoGlobal, loaded |-> loaded, assigns |-> assigns]

procVars == <<options, processEnv, pc, via, hostStdio, hostEnv, launch, exitEvent,
              status, stdinWrapper, exitListener, stdoutVars, accVars, cmdOut,
              stdinVars, crashed, stderrVars, awaitVars>>

NoFFICall ==
  /\ ffiCall = [fn |-> "none", arg |-> <<>>]
  /\ ffiResult = [ok |-> TRUE, value |-> <<>>]
  /\ hostOpens = <<>>

SetGlobals(g) ==
  /\ denoGlobal' = g.global
  /\ loaded' = g.loaded
  /\ assigns' = g.assigns

\* import "@sigma/deno-compat/node"
ImportNode ==
  /\ "node" \notin loaded
  /\ SetGlobals(EvalNode(Globals))
  /\ UNCHANGED <<navigator, modImport, procVars, ffiVars>>

\* import "@sigma/deno-compat/bun"
ImportBun ==
  /\ "bun" \notin loaded
  /\ SetGlobals(EvalBun(Globals, navigator))
  /\ UNCHANGED <<navigator, modImport, procVars, ffiVars>>

\* import "@sigma/deno-compat"
ImportMod ==
  /\ "mod" \notin loaded
  /\ SetGlobals(EvalMod(Globals, navigator))
  /\ modImport' = ModChoice(navigator)
  /\ UNCHANGED <<navigator, procVars, ffiVars>>

\* a fresh process: no module of the package is loaded, Deno is unbound or
\* provided by the host, and no Command exists
InitInstall ==
  /\ navigator \in {Null} \cup {Some(ua) : ua \in UserAgents}
  /\ denoGlobal \in {"unbound", "native"}
  /\ loaded = {}
  /\ assigns = <<>>
  /\ modImport = Null
  /\ NoFFICall
  /\ options = [stdin |-> "unset", stdout |-> "unset", stderr |-> "unset", env |-> Null]
  /\ processEnv \in InheritedEnvs
  /\ pc = "constructed" /\ via = "none" /\ hostStdio = <<>> /\ hostEnv = Null
  /\ launch = "none" /\ exitEvent = Null /\ status = NoPromise
  /\ stdinWrapper = FALSE /\ exitListener = FALSE
  /\ childOut = <<>> /\ hostBuf = <<>> /\ stdoutClosed = FALSE
  /\ accState = "idle" /\ chunks = <<>> /\ accResult = <<>> /\ cmdOut = NoPromise
  /\ writes = <<>> /\ hostQ = <<>> /\ settled = <<>> /\ closeState = NoPromise
  /\ stdinState = "open" /\ crashed = FALSE
  /\ childErr = <<>> /\ errBuf = <<>> /\ awaiting = "no" /\ observed = Null

NextInstall == ImportNode \/ ImportBun \/ ImportMod

InstallSpec == InitInstall /\ [][NextInstall]_vars

\* ---- the FFI type adapter of deno-compat-bun.ts ----

\* the tags transformFFIType has a case for
FFITags ==
  {"void", "bool", "u8", "i8", "u16", "i16", "u32", "i32", "u64", "i64",
   "usize", "isize", "f32", "f64", "pointer", "buffer", "function"}

\* tags it has no case for
OtherTags == {"i128", "string", ""}

\* the members of the host's FFIType the adapter uses
HostTypes ==
  {"FFIType.void", "FFIType.bool", "FFIType.u8", "FFIType.i8", "FFIType.u16",
   "FFIType.i16", "FFIType.u32", "FFIType.i32", "FFIType.u64", "FFIType.i64",
   "FFIType.f32", "FFIType.f64", "FFIType.ptr", "FFIType.function"}

Returned(v) == [ok |-> TRUE, value |-> <<v>>]
Thrown(msg) == [ok |-> FALSE, value |-> msg]

\* static transformFFIType(denoType): the switch, its default case throws
\* new Error(`FFI type not supported: ${denoType}`)
TransformFFITypeDefaulting(denoType) ==
  IF denoType \in {"pointer", "buffer"} \cup OtherTags THEN Returned("FFIType.ptr")
  ELSE IF denoType = "usize" THEN Returned("FFIType.u64")
  ELSE IF denoType = "isize" THEN Returned("FFIType.i64")
  ELSE Returned("FFIType." \o denoType)

TransformFFIType(denoType) ==
  CASE denoType = "void" -> Returned("FFIType.void")
    [] denoType = "bool" -> Returned("FFIType.bool")
    [] denoType = "u8" -> Returned("FFIType.u8")
    [] denoType = "i8" -> Returned("FFIType.i8")
    [] denoType = "u16" -> Returned("FFIType.u16")
    [] denoType = "i16" -> Returned("FFIType.i16")
    [] denoType = "u32" -> Returned("FFIType.u32")
    [] denoType = "i32" -> Returned("FFIType.i32")
    [] denoType = "u64" -> Returned("FFIType.u64")
    [] denoType = "i64" -> Returned("FFIType.i64")
    [] denoType = "usize" -> Returned("FFIType.u64")
    [] denoType = "isize" -> Returned("FFIType.i64")
    [] denoType = "f32" -> Returned("FFIType.f32")
    [] denoType = "f64" -> Returned("FFIType.f64")
    [] denoType \in {"pointer", "buffer"} -> Returned("FFIType.ptr")
    [] denoType = "function" -> Returned("FFIType.function")
    [] OTHER -> Thrown(<<"FFI type not supported: ", denoType>>)

\* the first index at which a sequence of outcomes is a throw, 0 if none
RECURSIVE FirstThrow(_, _)
FirstThrow(outcomes, j) ==
  IF j > Len(outcomes) THEN 0
  ELSE IF ~outcomes[j].ok THEN j
  ELSE FirstThrow(outcomes, j + 1)

Reverse(seq) == [j \in 1..Len(seq) |-> seq[Len(seq) + 1 - j]]

\* bunSymbols[name] = { args: symbol.parameters.map(transformFFIType),
\*                      returns: transformFFIType(symbol.result) }
\* the map runs first and stops at the first tag that throws
TranslateSymbolReversed(name, symbol) ==
  LET ps == [j \in 1..Len(symbol.parameters) |-> TransformFFIType(symbol.parameters[j])]
      r == TransformFFIType(symbol.result)
  IN IF FirstThrow(ps, 1) # 0 THEN ps[FirstThrow(ps, 1)]
     ELSE IF ~r.ok THEN r
     ELSE Returned([name |-> name,
                    args |-> Reverse([j \in 1..Len(ps) |-> ps[j].value[1]]),
                    returns |-> r.value[1]])

TranslateSymbol(name, symbol) ==
  LET ps == [j \in 1..Len(symbol.parameters) |-> TransformFFIType(symbol.parameters[j])]
      r == TransformFFIType(symbol.result)
  IN IF FirstThrow(ps, 1) # 0 THEN ps[FirstThrow(ps, 1)]
     ELSE IF ~r.ok THEN r
     ELSE Returned([name |-> name,
                    args |-> [j \in 1..Len(ps) |-> ps[j].value[1]],
                    returns |-> r.value[1]])

\* "type" in symbol
HasTypeKey(symbol) == "type" \in DOMAIN symbol

\* for (const name in symbols) { ... }: the entries are visited in order; an
\* entry with a type key throws, any other entry is translated; the result
\* is the binding table or the first throw
RECURSIVE BuildSymbols(_, _)
BuildSymbols(symbols, bunSymbols) ==
  IF symbols = <<>> THEN Returned(bunSymbols)
  ELSE LET name == Head(symbols).name
           symbol == Head(symbols).symbol
       IN IF HasTypeKey(symbol)
            THEN Thrown(<<"Symbol type notation not supported">>)
          ELSE LET t == TranslateSymbol(name, symbol)
               IN IF ~t.ok THEN t
                  ELSE BuildSymbols(Tail(symbols), Append(bunSymbols, t.value[1]))

\* the inputs of dlopen: a symbols map is a sequence of [name, symbol] with
\* distinct names, in the order of its keys
DlopenTags == {"i32", "pointer", "i128"}
SymbolNames == <<"add", "sub">>
ParameterLists == UNION {[1..n -> DlopenTags] : n \in 0..MaxParams}
PortableSymbols == [parameters : ParameterLists, result : DlopenTags]
TypeSymbols == {[type |-> "i32"]}
SymbolMaps ==
  {<<>>}
  \cup {<<[name |-> SymbolNames[1], symbol |-> e]>> : e \in PortableSymbols \cup TypeSymbols}
  \cup {<<[name |-> SymbolNames[1], symbol |-> e1], [name |-> SymbolNames[2], symbol |-> e2]>> :
          e1 \in PortableSymbols \cup TypeSymbols, e2 \in PortableSymbols \cup TypeSymbols}

\* what the host's dlopen(path, bunSymbols) does: returns its library handle or throws
HostOpenOutcomes == {Returned("lib"), Thrown(<<"host dlopen failed">>)}

\* BunDenoCompat.transformFFIType(tag) called directly
CallTransformFFIType ==
  /\ denoGlobal = "BunDenoCompat" /\ ffiCall.fn = "none"
  /\ \E tag \in FFITags \cup OtherTags :
    /\ ffiCall' = [fn |-> "transformFFIType", arg |-> <<tag>>]
    /\ ffiResult' = TransformFFIType(tag)
    /\ hostOpens' = <<>>
    /\ UNCHANGED <<procVars, installVars>>

\* BunDenoCompat.dlopen(path, symbols): build the table, then
\* const lib = dlopen(path, bunSymbols); return lib
CallDlopen ==
  /\ denoGlobal = "BunDenoCompat" /\ ffiCall.fn = "none"
  /\ \E symbols \in SymbolMaps, host \in HostOpenOutcomes :
    /\ ffiCall' = [fn |-> "dlopen", arg |-> symbols]
    /\ LET built == BuildSymbols(symbols, <<>>)
       IN IF built.ok
            THEN hostOpens' = <<built.value[1]>> /\ ffiResult' = host
            ELSE hostOpens' = <<>> /\ ffiResult' = built
    /\ UNCHANGED <<procVars, installVars>>

\* the caller has looked at the outcome and may make its next call
FFIReturn ==
  /\ ffiCall.fn # "none"
  /\ ffiCall' = [fn |-> "none", arg |-> <<>>]
  /\ ffiResult' = [ok |-> TRUE, value |-> <<>>]
  /\ hostOpens' = <<>>
  /\ UNCHANGED <<procVars, installVars>>

\* a Bun process in which the bun adapter is installed and no call was made
InitFFI ==
  /\ InitInstall
  /\ navigator = Some(<<"B", "u", "n", "/", "1">>)
  /\ denoGlobal = "unbound"

NextFFI == ImportBun \/ CallTransformFFIType \/ CallDlopen \/ FFIReturn

FFISpec == InitFFI /\ [][NextFFI]_vars

\* Command.output() settles as soon as both promises have: the job that
\* resumes it is always run by the event loop
FairSpec == Spec /\ WF_vars(OutputSettle)

\* ---- the claims ----

\* what the stdio table of the specification asks for
ExpectedSlot(mode) ==
  IF mode = "piped" THEN "pipe" ELSE IF mode = "null" THEN "ignore" ELSE "inherit"

\* C1: for stdin, stdout and stderr alike, the slot handed to the host is
\* "pipe" for piped, "ignore" for null and "inherit" for inherit or unset.
C1_Claim ==
  hostStdio # <<>> =>
    /\ hostStdio[1] = ExpectedSlot(options.stdin)
    /\ hostStdio[2] = ExpectedSlot(options.stdout)
    /\ hostStdio[3] = ExpectedSlot(options.stderr)

\* C2: whenever the host reports a launch failure, spawn() returned no
\* SpawnedProcess, no status promise exists and no host 'error' event went
\* unhandled.
C2_Claim ==
  launch \in {"threw", "asyncError", "errorEmitted"} =>
    /\ pc # "spawned"
    /\ status.state = "none"
    /\ ~crashed

\* C3: the status promise settles at most once, only in the step in which the
\* host delivers the exit notification (never on a stream end or finish), and
\* whenever it is resolved the exit notification has been delivered.
C3_StatusOnlyOnExit ==
  /\ [](status.state = "resolved" => exitEvent # Null)
  /\ [][ /\ status.state = "resolved" => status' = status
         /\ (status.state # "resolved" /\ status'.state = "resolved")
              => (exitEvent = Null /\ exitEvent' # Null) ]_vars

C3_Witness ==
  /\ status.state = "resolved"
  /\ accState = "done" /\ options.stdout = "piped"
  /\ stdinState = "finished"

\* C4: the resolved ExitStatus has success exactly for code 0 without signal,
\* code equal to the reported code or 0 for a signal-only exit, and signal
\* equal to the reported signal or null.
C4_ExitStatusValue ==
  (status.state = "resolved" /\ exitEvent # Null) =>
    LET code == exitEvent[1][1]
        signal == exitEvent[1][2]
        v == status.value[1]
    IN /\ v.success = (code = Some(0) /\ signal = Null)
       /\ v.code = (IF code = Null THEN 0 ELSE code[1])
       /\ v.signal = signal

C4_Witness ==
  /\ status.state = "resolved"
  /\ exitEvent # Null /\ exitEvent[1][1] = Null /\ exitEvent[1][2] = Some("SIGTERM")

\* C5: Command.output() is pending while the status promise or the stdout
\* accumulator is outstanding, and it resolves once both have completed.
C5_OutputAwaitsBoth ==
  /\ [](cmdOut.state = "resolved" => (status.state = "resolved" /\ accState = "done"))
  /\ ((via = "output" /\ status.state = "resolved" /\ accState = "done")
        ~> (cmdOut.state = "resolved"))

C5_Witness ==
  /\ cmdOut.state = "resolved"
  /\ options.stdout = "piped" /\ Len(childOut) > 0

\* C6: with stdout piped, the stdout of the Command.output() result is every
\* byte the child wrote to its standard output, in the order written.
C6_StdoutIsConcatenation ==
  (cmdOut.state = "resolved" /\ options.stdout = "piped") =>
    cmdOut.value[1].stdout = childOut

C6_Witness ==
  /\ cmdOut.state = "resolved" /\ options.stdout = "piped"
  /\ Len(chunks) = 2 /\ chunks[1] # chunks[2]

Settled(w) == w.state \in {"resolved", "rejected"}

\* C7: a write resolves only after the host flushed it, the writes submitted
\* before close() settle in submission order, and close() resolves only after
\* the host stream has finished and every earlier write has settled.
C7_Claim ==
  /\ \A k \in 1..Len(writes) : writes[k].state = "resolved" => writes[k].acked
  /\ \A k \in 1..(Len(writes) - 1) :
       (~writes[k + 1].afterClose /\ Settled(writes[k + 1])) => Settled(writes[k])
  /\ closeState.state = "resolved" =>
       /\ stdinState = "finished"
       /\ \A k \in 1..Len(writes) : ~writes[k].afterClose => Settled(writes[k])

\* C8: when a write fails (write after close, or broken pipe), only that
\* write is rejected and the adapter does not crash.
C8_Claim ==
  (\E k \in 1..Len(writes) : writes[k].failed) =>
    /\ ~crashed
    /\ \A j \in 1..Len(writes) : writes[j].state = "rejected" => writes[j].failed

\* C9: with env overrides the host gets the whole process environment with
\* the overrides on top; without env no environment is passed.
C9_EnvMerged ==
  hostStdio # <<>> =>
    IF options.env = Null THEN hostEnv = Null
    ELSE /\ hostEnv # Null
         /\ LET e == hostEnv[1]
                o == options.env[1]
            IN /\ DOMAIN e = (DOMAIN processEnv) \cup (DOMAIN o)
               /\ \A n \in (DOMAIN processEnv) \ (DOMAIN o) : e[n] = processEnv[n]
               /\ \A n \in DOMAIN o : e[n] = o[n]

C9_Witness ==
  /\ hostStdio # <<>> /\ options.env # Null
  /\ DOMAIN options.env[1] = {"PATH", "EXTRA"}
  /\ hostEnv # Null /\ hostEnv[1]["HOME"] = "a" /\ hostEnv[1]["PATH"] = "b"

\* C10: the stdin field of a returned SpawnedProcess is a wrapper exactly when
\* the stdin mode is piped.
C10_StdinIffPiped ==
  pc = "spawned" => (stdinWrapper <=> options.stdin = "piped")

C10_Witness ==
  pc = "spawned" /\ stdinWrapper /\ options.stdin = "piped" /\ Len(writes) > 0

\* C11: the stderr of every Command.output() result is empty, whatever the
\* stderr mode and whatever the child wrote to its standard error, and
\* output() takes nothing out of the stderr pipe.
C11_StderrEmpty ==
  /\ cmdOut.state = "resolved" => cmdOut.value[1].stderr = <<>>
  /\ (via = "output" /\ hostStdio # <<>> /\ hostStdio[3] = "pipe") => errBuf = childErr

C11_Witness ==
  /\ cmdOut.state = "resolved"
  /\ options.stderr = "piped" /\ childErr # <<>>

\* C17: the exit listener is registered inside spawn(): once the host has
\* delivered the exit notification the status promise is resolved with its
\* values, a caller's await returns exactly these values, and it does return
\* whether the await began before or after the exit.
C17_ExitNeverLost ==
  /\ [](pc = "spawned" => exitListener)
  /\ [](exitEvent # Null =>
          status = [state |-> "resolved",
                    value |-> Some(ExitStatus(exitEvent[1][1], exitEvent[1][2]))])
  /\ [](observed # Null =>
          (exitEvent # Null /\ observed = Some(ExitStatus(exitEvent[1][1], exitEvent[1][2]))))
  /\ ((awaiting # "no" /\ exitEvent # Null) ~> (observed # Null))

C17_Witness ==
  awaiting = "after_exit" /\ observed # Null

\* C12: globalThis.Deno is assigned at most once per process, and only when
\* it was unbound just before the assignment.
C12_Claim ==
  /\ Len(assigns) <= 1
  /\ \A i \in 1..Len(assigns) : assigns[i].before = "unbound"

\* C15: with a user agent that does not start with "Bun", whatever modules
\* were loaded, nothing with FFI members was ever assigned to the global and
\* the surface the adapters installed has none of the FFI members.
UserAgentIsBun == navigator # Null /\ StartsWith(navigator[1], <<"B", "u", "n">>)

C15_NoFFIWithoutBridge ==
  ~UserAgentIsBun =>
    /\ \A i \in 1..Len(assigns) : Surface(assigns[i].value) \cap FFIMembers = {}
    /\ denoGlobal # "native" => Surface(denoGlobal) \cap FFIMembers = {}

C15_Witness ==
  /\ navigator = Some(<<"b", "u", "n", "/", "1">>)
  /\ {"bun", "mod"} \subseteq loaded
  /\ denoGlobal = "DenoCompat"

\* C18: exactly one of isDeno, isNode, isBun holds; mod.ts imports no adapter
\* when isDeno and exactly one otherwise; and whenever detection says bun,
\* the global after mod.ts has the FFI members.
C18_Claim ==
  /\ Cardinality({r \in {"deno", "node", "bun"} : Runtime(navigator) = r}) = 1
  /\ (isDeno(navigator) /\ ~isNode(navigator) /\ ~isBun(navigator))
       \/ (~isDeno(navigator) /\ isNode(navigator) /\ ~isBun(navigator))
       \/ (~isDeno(navigator) /\ ~isNode(navigator) /\ isBun(navigator))
  /\ "mod" \in loaded =>
       /\ isDeno(navigator) <=> modImport = Null
       /\ isBun(navigator) => FFIMembers \subseteq Surface(denoGlobal)

\* C13: transformFFIType returns a host type handle for each of the seventeen
\* tags and throws an error naming the tag for every other tag; no tag
\* outside the set gets a handle.
C13_TransformTotal ==
  ffiCall.fn = "transformFFIType" =>
    LET tag == ffiCall.arg[1]
    IN IF tag \in FFITags
         THEN ffiResult.ok /\ ffiResult.value[1] \in HostTypes
         ELSE ~ffiResult.ok /\ ffiResult.value = <<"FFI type not supported: ", tag>>

C13_Witness ==
  /\ ffiCall = [fn |-> "transformFFIType", arg |-> <<"i128">>]
  /\ ~ffiResult.ok

\* C14: whenever any entry of the symbols map has a type key, dlopen throws
\* the "Symbol type notation not supported" error and the host's open call
\* is not made.
C14_Claim ==
  (ffiCall.fn = "dlopen"
     /\ \E i \in 1..Len(ffiCall.arg) : HasTypeKey(ffiCall.arg[i].symbol)) =>
    /\ ffiResult = Thrown(<<"Symbol type notation not supported">>)
    /\ hostOpens = <<>>

AllSupported(symbols) ==
  \A i \in 1..Len(symbols) :
    /\ symbols[i].symbol.result \in FFITags
    /\ \A j \in 1..Len(symbols[i].symbol.parameters) :
         symbols[i].symbol.parameters[j] \in FFITags

\* C16: for a symbols map in the portable form, if every tag is supported the
\* host's open call is made exactly once with a table of the same names whose
\* args are the parameter tags translated in order and whose returns is the
\* translated result tag, and what the host returns is what dlopen returns;
\* if some tag is unsupported dlopen throws and the host's open call is not made.
C16_TranslateThenOpen ==
  (ffiCall.fn = "dlopen"
     /\ \A i \in 1..Len(ffiCall.arg) : ~HasTypeKey(ffiCall.arg[i].symbol)) =>
    LET symbols == ffiCall.arg
    IN IF AllSupported(symbols)
         THEN /\ Len(hostOpens) = 1
              /\ Len(hostOpens[1]) = Len(symbols)
              /\ \A i \in 1..Len(symbols) :
                   /\ hostOpens[1][i].name = symbols[i].name
                   /\ Len(hostOpens[1][i].args) = Len(symbols[i].symbol.parameters)
                   /\ \A j \in 1..Len(symbols[i].symbol.parameters) :
                        Returned(hostOpens[1][i].args[j])
                          = TransformFFIType(symbols[i].symbol.parameters[j])
                   /\ Returned(hostOpens[1][i].returns)
                        = TransformFFIType(symbols[i].symbol.result)
              /\ ffiResult \in HostOpenOutcomes
         ELSE /\ ~ffiResult.ok
              /\ ffiResult.value[1] = "FFI type not supported: "
              /\ hostOpens = <<>>

C16_Witness ==
  /\ ffiCall.fn = "dlopen" /\ Len(ffiCall.arg) = 2
  /\ ffiCall.arg[1].symbol = [parameters |-> <<"i32", "pointer">>, result |-> "i32"]
  /\ ffiResult = Returned("lib")
  /\ Len(hostOpens) = 1
====
